---- MODULE Spec2Model ----
(***************************************************************************)
(* Model of moderation_tools.py: the Moderation pipeline that stages the   *)
(* likers of a post in the table 'to_be_added' (add_likes_to_be_processed) *)
(* and drains that table into a moderation list, recording each addition   *)
(* in the table 'added' (process_list), gated by a persisted rate limiter. *)
(*                                                                         *)
(* Every store operation of sqlite_utils commits on its own, so each one   *)
(* is a step of the model and the process can be interrupted between any   *)
(* two of them (Crash).  The tables, the limiter bucket and the clock are  *)
(* durable; everything else is lost when a run ends.                       *)
(***************************************************************************)
EXTENDS Integers, Sequences, FiniteSets, TLC

\* ------------------------------------------------------------------ bounds
MaxPages == 2       \* get_likes requests one ingestion call can make
MaxTime == 3        \* clock ticks (one tick = one Duration.HOUR)
MaxSessions == 3    \* session strings the server issues
HourCap == 1        \* scaled Rate(1200, Duration.HOUR)
DayCap == 2         \* scaled Rate(9000, Duration.DAY)
DayLen == 3         \* scaled Duration.DAY, in hours
MaxDelay == 1       \* max_delay = Duration.HOUR, in hours

Subjects == {"did:a", "did:b"}
Handles == {"h1", "h2"}
Posts == {"p1", "p2"}
Lists == {"l1", "l2"}
Cursors == {"A", "B"}
NoCursor == ""
Accounts == {"mod1", "mod2"}
SessionEvents == {"IMPORT", "CREATE", "REFRESH"}
NoSession == 0

VARIABLES
    to_be_added,    \* table 'to_be_added' in rowid order: the staged rows
    added,          \* table 'added': the done rows
    bucket,         \* SQLiteBucket: timestamps of the acquired items
    now,            \* the clock
    pc,             \* where the running call is; "idle" when none runs
    post_url,       \* add_likes_to_be_processed: its argument
    page,           \* fetch_likes: the page last returned by get_likes
    likes,          \* fetch_likes: the likes collected, then the loop's rest
    list_url,       \* process_list: its argument
    rows,           \* process_list: the rows the iteration has yet to yield
    row,            \* process_list: the row being processed
    lastRun,        \* how the last call ended
    everStaged,     \* subjects ever inserted into 'to_be_added'
    applied,        \* subjects for which add_item_to_list succeeded
    torn,           \* subjects whose insert into 'added' was not followed by
                    \* the delete from 'to_be_added': the process was killed
    calls,          \* times of the add_item_to_list invocations of the
                    \* current day, at most DayCap + 1 of them; NoLog in the
                    \* behaviours that keep no such record
    sent,           \* the cursor passed to the last get_likes request
    nreq,           \* get_likes requests made by the running call
    walked,         \* actors of the pages returned to the running call
    startStaged,    \* subjects staged when the running call started
    denied,         \* try_acquire returned False in the running drain pass
    prev,           \* how the call before the running one ended
    authDb,         \* table 'session' of auth.db: for each handle its
                    \* session_string, NoSession when it has no row
    account,        \* self.handle of the Moderation object, "" when none
    client,         \* the session the Client of the object holds
    up,             \* "down", "up" (constructed) or "failed"
    valid,          \* the sessions the server accepts
    issued,         \* the sessions issued so far, numbered from 1
    event,          \* the last event given to session_change
    login           \* how the last construction logged in

durable == <<to_be_added, added, bucket, now>>
memory == <<post_url, page, likes, list_url, rows, row>>
history == <<everStaged, applied, torn, calls>>
call == <<sent, nreq, walked, startStaged, denied, prev>>
auth == <<authDb, account, client, up, valid, issued, event, login>>
vars == <<to_be_added, added, bucket, now, pc, post_url, page, likes,
          list_url, rows, row, lastRun, everStaged, applied, torn, calls,
          sent, nreq, walked, startStaged, denied, prev, authDb, account,
          client, up, valid, issued, event, login>>

\* ----------------------------------------------------------------- helpers
Range(s) == {s[i] : i \in DOMAIN s}

NoPage == [likes |-> <<>>, cursor |-> NoCursor]
NoRow == [subject |-> "", handle |-> "", source |-> "", action |-> ""]

\* The handle an actor carries when the likes of a post are read: handles
\* change over time, and here they differ from one post to the other.
HandleOn(url) == IF url = "p1" THEN "h1" ELSE "h2"

\* A like as get_likes reports it: like.actor.did and like.actor.handle.
Like(url) == [did : Subjects, handle : {HandleOn(url)}]

\* The pages get_likes can answer with for a post: no like or one like, and
\* a cursor or none.
Pages(url) == [likes : {<<>>} \cup {<<l>> : l \in Like(url)},
               cursor : Cursors \cup {NoCursor}]

StagedSubjects == {r.subject : r \in Range(to_be_added)}
DoneSubjects == {r.subject : r \in added}

RECURSIVE Without(_, _)
\* The sequence s without the rows whose key is k.
Without(s, k) ==
    IF s = <<>> THEN <<>>
    ELSE IF Head(s).subject = k THEN Without(Tail(s), k)
    ELSE <<Head(s)>> \o Without(Tail(s), k)


\* ------------------------------------------------------------------- store
\* A lookup that never finds the subject.
IsDoneNever(s) == FALSE

\* added.get(subject) returns a row (line 213); NotFoundError otherwise.
IsDone(s) == \E r \in added : r.subject = s

\* An insert that replaces the row of a subject already in the table.
StageUpsert(tbl, r) == Append(Without(tbl, r.subject), r)

\* to_be_added.insert(..., pk="subject") with every exception swallowed
\* (lines 183-194): a duplicate subject raises and the table keeps its rows.
StageInsert(tbl, r) ==
    IF \E i \in DOMAIN tbl : tbl[i].subject = r.subject THEN tbl
    ELSE Append(tbl, r)

\* The row add_likes_to_be_processed builds from one like (lines 185-190).
StagedRow(like, url) ==
    [subject |-> like.did, handle |-> like.handle, source |-> url,
     action |-> "like"]

\* A done row that names the post of the like as its list.
DoneRowOfSource(r, url) ==
    [subject |-> r.subject, handle |-> r.handle, source |-> r.source,
     action |-> r.action, list_url |-> r.source]

\* The row process_list builds for 'added' (lines 219-225).
DoneRow(r, url) ==
    [subject |-> r.subject, handle |-> r.handle, source |-> r.source,
     action |-> r.action, list_url |-> url]

\* A delete that leaves the row in the table.
StagedDeleteNothing(tbl, s) == tbl

\* to_be_added.delete(subject) (lines 230, 235).
StagedDelete(tbl, s) == Without(tbl, s)

\* ----------------------------------------------------------------- limiter
\* Items of bucket b inside the window of length w that ends at time t.
InWindow(b, t, w) == {i \in DOMAIN b : b[i] > t - w}

\* The bucket without the items that left the longest window.
Leak(b, t) == SelectSeq(b, LAMBDA x : x > t - DayLen)

HourFull(b, t) == Cardinality(InWindow(b, t, 1)) >= HourCap
DayFull(b, t) == Cardinality(InWindow(b, t, DayLen)) >= DayCap

\* Time until the oldest item of the failing rate's window leaves it; the
\* rates are tried shortest interval first.
Waiting(b, t) ==
    LET w == IF HourFull(b, t) THEN 1 ELSE DayLen
        first == CHOOSE i \in InWindow(b, t, w) :
                     \A j \in InWindow(b, t, w) : i <= j
    IN  b[first] + w - t

\* A try_acquire without max_delay: it sleeps until a unit is free.
TryAcquireBlocking(b, t) ==
    LET free(x) == ~HourFull(Leak(b, x), x) /\ ~DayFull(Leak(b, x), x)
        t1 == CHOOSE x \in t .. t + DayLen :
                  free(x) /\ \A y \in t .. x - 1 : ~free(y)
    IN  [ok |-> TRUE, bucket |-> Append(Leak(b, t1), t1), now |-> t1]

\* Limiter.try_acquire with max_delay and raise_when_fail=False (line 141):
\* granted at once, granted after one sleep of at most max_delay, or False.
TryAcquire(b, t) ==
    IF ~HourFull(b, t) /\ ~DayFull(b, t)
    THEN [ok |-> TRUE, bucket |-> Append(b, t), now |-> t]
    ELSE LET d == Waiting(b, t)
             t1 == t + d
             b1 == Leak(b, t1)
         IN  IF d > MaxDelay THEN [ok |-> FALSE, bucket |-> b, now |-> t]
             ELSE IF ~HourFull(b1, t1) /\ ~DayFull(b1, t1)
             THEN [ok |-> TRUE, bucket |-> Append(b1, t1), now |-> t1]
             ELSE [ok |-> FALSE, bucket |-> b1, now |-> t1]

\* The value of 'calls' when the invocations are not recorded.
NoLog == <<-1>>

\* The record of the invocations without those older than a day at time t.
Aged(log, t) == IF log = NoLog THEN NoLog ELSE Leak(log, t)

\* The record of the invocations of add_item_to_list after one more at
\* time t: those of the day that ends at t, no more than DayCap + 1.
Invoked(log, t) ==
    IF log = NoLog THEN NoLog
    ELSE IF Len(Leak(log, t)) <= DayCap THEN Append(Leak(log, t), t)
    ELSE Leak(log, t)

\* -------------------------------------------------------------------- Init
\* The state after construction, but for the record of the invocations.
Start ==
    /\ to_be_added = <<>>
    /\ added = {}
    /\ bucket = <<>>
    /\ now = 0
    /\ pc = "idle"
    /\ post_url = ""
    /\ page = NoPage
    /\ likes = <<>>
    /\ list_url = ""
    /\ rows = <<>>
    /\ row = NoRow
    /\ lastRun = "none"
    /\ everStaged = {}
    /\ applied = {}
    /\ torn = {}
    /\ sent = NoCursor
    /\ nreq = 0
    /\ walked = {}
    /\ startStaged = {}
    /\ denied = FALSE
    /\ prev = "none"
    /\ authDb = [h \in Accounts |-> NoSession]
    /\ account = ""
    /\ client = NoSession
    /\ up = "down"
    /\ valid = {}
    /\ issued = 0
    /\ event = ""
    /\ login = "none"

\* The state after construction, no record of the invocations kept.
Init == Start /\ calls = NoLog

\* The running call ends with the given outcome: the process memory and
\* the record of the call are gone.
EndCall(outcome) ==
    /\ pc' = "idle"
    /\ lastRun' = outcome
    /\ post_url' = ""
    /\ page' = NoPage
    /\ likes' = <<>>
    /\ list_url' = ""
    /\ rows' = <<>>
    /\ row' = NoRow
    /\ sent' = NoCursor
    /\ nreq' = 0
    /\ walked' = {}
    /\ startStaged' = {}
    /\ denied' = FALSE
    /\ prev' = "none"

\* --------------------------------------------------------------- ingestion
\* The loop condition of fetch_likes (line 101, all = True).
MorePages(p) == p.cursor # NoCursor

\* The cursor fetch_likes passes to get_likes inside the loop (line 102).
NextCursor(p) == p.cursor

\* A loop that keeps the likes of the last page only.
CollectLast(ls, p) == p.likes

\* likes += page.likes when the page has likes (lines 103-104).
Collect(ls, p) == IF p.likes # <<>> THEN ls \o p.likes ELSE ls

\* add_likes_to_be_processed(post_url) up to the first get_likes (line 97).
StartIngest ==
    /\ pc = "idle"
    /\ \E url \in Posts : \E p \in Pages(url) :
        /\ (MaxPages = 1) => p.cursor = NoCursor
        /\ post_url' = url
        /\ page' = p
        /\ likes' = p.likes
        /\ walked' = {l.did : l \in Range(p.likes)}
    /\ pc' = "fetch"
    /\ sent' = NoCursor
    /\ nreq' = 1
    /\ startStaged' = StagedSubjects
    /\ lastRun' = "running"
    /\ UNCHANGED <<durable, list_url, rows, row, history, denied, prev>>
    /\ UNCHANGED auth

\* The post cannot be resolved or the first get_likes raises (lines 94-97):
\* the call ends before anything was fetched.
FetchFirstFail ==
    /\ pc = "idle"
    /\ EndCall("fetch_raised")
    /\ UNCHANGED <<durable, history>>
    /\ UNCHANGED auth

\* One turn of the while loop of fetch_likes (lines 101-104).
FetchNext ==
    /\ pc = "fetch"
    /\ MorePages(page)
    /\ \E p \in Pages(post_url) :
        /\ (nreq + 1 >= MaxPages) => p.cursor = NoCursor
        /\ page' = p
        /\ likes' = Collect(likes, p)
        /\ walked' = walked \cup {l.did : l \in Range(p.likes)}
    /\ sent' = NextCursor(page)
    /\ nreq' = nreq + 1
    /\ UNCHANGED <<durable, pc, post_url, list_url, rows, row, lastRun,
                   history, startStaged, denied, prev>>
    /\ UNCHANGED auth

\* get_likes raises inside the loop (line 102): fetch_likes, and with it
\* the call, ends there.
FetchFail ==
    /\ pc = "fetch"
    /\ MorePages(page)
    /\ EndCall("fetch_raised")
    /\ UNCHANGED <<durable, history>>
    /\ UNCHANGED auth

\* The loop ends and fetch_likes returns the likes (lines 101, 106); its
\* local 'page' ends with it.
FetchDone ==
    /\ pc = "fetch"
    /\ ~MorePages(page)
    /\ pc' = "stage"
    /\ page' = NoPage
    /\ UNCHANGED <<durable, post_url, likes, list_url, rows, row, lastRun,
                   history, call>>
    /\ UNCHANGED auth

\* One turn of the for loop of add_likes_to_be_processed (lines 182-194).
StageLike ==
    /\ pc = "stage"
    /\ likes # <<>>
    /\ to_be_added' = StageInsert(to_be_added, StagedRow(Head(likes), post_url))
    /\ everStaged' = everStaged \cup {r.subject : r \in Range(to_be_added')}
    /\ likes' = Tail(likes)
    /\ UNCHANGED <<added, bucket, now, pc, post_url, page, list_url, rows, row,
                   lastRun, applied, torn, calls, call>>
    /\ UNCHANGED auth

\* The for loop ends and add_likes_to_be_processed returns.
StageDone ==
    /\ pc = "stage"
    /\ likes = <<>>
    /\ EndCall("ingest_ok")
    /\ UNCHANGED <<durable, history>>
    /\ UNCHANGED auth

\* ------------------------------------------------------------------- drain
\* process_list(list_url) up to the for loop: the iteration over the rows of
\* 'to_be_added' starts (lines 203-208).
StartDrain ==
    /\ pc = "idle"
    /\ \E url \in Lists : list_url' = url
    /\ rows' = to_be_added
    /\ pc' = "next"
    /\ startStaged' = StagedSubjects
    /\ prev' = lastRun
    /\ lastRun' = "running"
    /\ UNCHANGED <<durable, post_url, page, likes, row, history, sent, nreq,
                   walked, denied>>
    /\ UNCHANGED auth

\* The iteration yields the next row and the row is looked up in 'added'
\* (lines 207, 212-214, 231).
NextRow ==
    /\ pc = "next"
    /\ rows # <<>>
    /\ row' = Head(rows)
    /\ rows' = Tail(rows)
    /\ pc' = IF IsDone(Head(rows).subject) THEN "cleanup" ELSE "acquire"
    /\ UNCHANGED <<durable, post_url, page, likes, list_url, lastRun,
                   history, call>>
    /\ UNCHANGED auth

\* The iteration is exhausted and process_list returns.
DrainDone ==
    /\ pc = "next"
    /\ rows = <<>>
    /\ EndCall(IF denied THEN "drain_ok"
               ELSE IF startStaged = {} THEN "drain_idle" ELSE "drain_clean")
    /\ UNCHANGED <<durable, history>>
    /\ UNCHANGED auth

\* self._limiter.try_acquire(...), its result not looked at (line 215).
Acquire ==
    /\ pc = "acquire"
    /\ LET a == TryAcquire(bucket, now)
       IN  /\ a.now <= MaxTime
           /\ bucket' = a.bucket
           /\ now' = a.now
           /\ denied' = (denied \/ ~a.ok)
    /\ pc' = "call"
    /\ UNCHANGED <<to_be_added, added, memory, lastRun, history, sent, nreq,
                   walked, startStaged, prev>>
    /\ UNCHANGED auth

\* self._api.add_item_to_list(...) returns (line 216).
CallOk ==
    /\ pc = "call"
    /\ pc' = "insert"
    /\ applied' = applied \cup {row.subject}
    /\ calls' = Invoked(calls, now)
    /\ UNCHANGED <<durable, memory, lastRun, everStaged, torn, call>>
    /\ UNCHANGED auth

\* A failure of add_item_to_list that takes the staged row with it.
CallFailDropsRow ==
    /\ pc = "call"
    /\ EndCall("call_raised")
    /\ calls' = Invoked(calls, now)
    /\ to_be_added' = StagedDelete(to_be_added, row.subject)
    /\ UNCHANGED <<added, bucket, now, everStaged, applied, torn>>
    /\ UNCHANGED auth

\* self._api.add_item_to_list(...) raises (line 216): raised inside the
\* except clause, the exception leaves process_list.
CallFail ==
    /\ pc = "call"
    /\ EndCall("call_raised")
    /\ calls' = Invoked(calls, now)
    /\ UNCHANGED <<durable, everStaged, applied, torn>>
    /\ UNCHANGED auth

\* An insert that reports success and writes nothing.
DoneInsertLost(tbl, r) == [raised |-> FALSE, table |-> tbl]

\* added.insert(..., pk="subject"): the row joins the table, or the
\* insert raises IntegrityError when the subject is in it already.
DoneInsert(tbl, r) ==
    IF \E q \in tbl : q.subject = r.subject
    THEN [raised |-> TRUE, table |-> tbl]
    ELSE [raised |-> FALSE, table |-> tbl \cup {r}]

\* self._moderationDb["added"].insert(..., pk="subject") (lines 218-228);
\* an IntegrityError leaves process_list.
InsertDone ==
    /\ pc = "insert"
    /\ LET t == DoneInsert(added, DoneRow(row, list_url))
       IN  /\ added' = t.table
           /\ IF t.raised
              THEN EndCall("store_raised")
              ELSE /\ pc' = "delete"
                   /\ UNCHANGED <<memory, lastRun, call>>
    /\ UNCHANGED <<to_be_added, bucket, now, history>>
    /\ UNCHANGED auth

\* self._moderationDb["to_be_added"].delete(row["subject"]) after the
\* insert (line 230).
DeleteStaged ==
    /\ pc = "delete"
    /\ to_be_added' = StagedDelete(to_be_added, row.subject)
    /\ torn' = torn \ {row.subject}
    /\ pc' = "next"
    /\ UNCHANGED <<added, bucket, now, memory, lastRun, everStaged, applied,
                   calls, call>>
    /\ UNCHANGED auth

\* The else clause: the subject is in 'added' already and only its staged
\* row is deleted (lines 231-235).
Cleanup ==
    /\ pc = "cleanup"
    /\ to_be_added' = StagedDelete(to_be_added, row.subject)
    /\ torn' = torn \ {row.subject}
    /\ pc' = "next"
    /\ UNCHANGED <<added, bucket, now, memory, lastRun, everStaged, applied,
                   calls, call>>
    /\ UNCHANGED auth

\* ------------------------------------------------------------- environment
\* The process is interrupted while a call runs: its memory is lost, the
\* tables and the limiter bucket stay as the last committed operation left
\* them.
Crash ==
    /\ pc # "idle"
    /\ EndCall("killed")
    /\ torn' = IF pc = "delete" THEN torn \cup {row.subject} ELSE torn
    /\ UNCHANGED <<durable, everStaged, applied, calls>>
    /\ UNCHANGED auth

\* An hour passes between two calls; the limiter's leak drops the items
\* that left every window.
Tick ==
    /\ pc = "idle"
    /\ now < MaxTime
    /\ now' = now + 1
    /\ bucket' = Leak(bucket, now + 1)
    /\ calls' = Aged(calls, now + 1)
    /\ UNCHANGED <<to_be_added, added, pc, memory, lastRun, everStaged,
                   applied, torn, call>>
    /\ UNCHANGED auth

Next ==
    \/ StartIngest
    \/ FetchFirstFail
    \/ FetchNext
    \/ FetchFail
    \/ FetchDone
    \/ StageLike
    \/ StageDone
    \/ StartDrain
    \/ NextRow
    \/ DrainDone
    \/ Acquire
    \/ CallOk
    \/ CallFail
    \/ InsertDone
    \/ DeleteStaged
    \/ Cleanup
    \/ Crash
    \/ Tick

Spec == Init /\ [][Next]_vars

\* The same program with the record of the invocations kept.
InitMetered == Start /\ calls = <<>>

SpecMetered == InitMetered /\ [][Next]_vars

\* ------------------------------------------------------------ store errors
\* to_be_added.insert raises another error than the duplicate key, say the
\* database is locked: the except clause (lines 192-193) takes it like the
\* duplicate, no row is written and the loop goes on with the next like.
StageError ==
    /\ pc = "stage"
    /\ likes # <<>>
    /\ likes' = Tail(likes)
    /\ UNCHANGED <<durable, pc, post_url, page, list_url, rows, row, lastRun,
                   history, call>>
    /\ UNCHANGED auth

\* added.insert or to_be_added.delete raises inside process_list (lines
\* 218-235): nothing catches it, the pass ends with the error and the
\* statement has written nothing.
DrainStoreError ==
    /\ pc \in {"insert", "delete", "cleanup"}
    /\ EndCall("store_raised")
    /\ torn' = IF pc = "delete" THEN torn \cup {row.subject} ELSE torn
    /\ UNCHANGED <<durable, everStaged, applied, calls>>
    /\ UNCHANGED auth

NextFault ==
    \/ Next
    \/ StageError
    \/ DrainStoreError

\* The program with a store that can fail.
SpecFault == Init /\ [][NextFault]_vars

\* ----------------------------------------------------------- session store
pipeline == <<durable, pc, memory, lastRun, history, call>>

\* A construction that gives up when the stored session is rejected.
LoginStoredOnly(stored, accepted, full_ok, fresh) ==
    IF stored # NoSession /\ stored \notin accepted
    THEN [how |-> "stored_failed", session |-> NoSession]
    ELSE IF stored # NoSession THEN [how |-> "stored", session |-> stored]
    ELSE IF full_ok THEN [how |-> "full", session |-> fresh]
    ELSE [how |-> "full_failed", session |-> NoSession]

\* BlueskyAPI.__post_init__ (lines 47-55): login with the stored session
\* string when there is one, and with handle and app password when there is
\* none or the client raised on it; full_ok tells whether that login works.
Login(stored, accepted, full_ok, fresh) ==
    IF stored # NoSession /\ stored \in accepted
    THEN [how |-> "stored", session |-> stored]
    ELSE IF full_ok THEN [how |-> "full", session |-> fresh]
    ELSE [how |-> "full_failed", session |-> NoSession]

\* An insert that replaces the row of the handle.
SessionReplace(tbl, h, s) == [tbl EXCEPT ![h] = s]

\* _authDb["session"].insert(..., pk="handle", ignore=True) (lines 157-164).
SessionInsert(tbl, h, s) ==
    IF tbl[h] = NoSession THEN [tbl EXCEPT ![h] = s] ELSE tbl

\* session_change(event, session) (lines 166-172): upsert on REFRESH only.
OnSessionChange(tbl, e, h, s) ==
    IF e = "REFRESH" THEN [tbl EXCEPT ![h] = s] ELSE tbl

\* Moderation.__post_init__ (lines 143-174) for handle h. A login with the
\* stored session may leave the client with a refreshed one; the callback is
\* not registered yet (line 174), so nothing hears of it.
Startup ==
    /\ up = "down"
    /\ \E h \in Accounts, full_ok \in BOOLEAN, refreshed \in BOOLEAN :
        LET l == Login(authDb[h], valid, full_ok, issued + 1)
            new == l.how = "full" \/ (l.how = "stored" /\ refreshed)
            s == IF l.how = "stored" /\ refreshed THEN issued + 1
                 ELSE l.session
        IN  /\ new => issued < MaxSessions
            /\ login' = l.how
            /\ issued' = IF new THEN issued + 1 ELSE issued
            /\ valid' = IF l.how = "full" THEN valid \cup {s}
                        ELSE IF new THEN (valid \ {l.session}) \cup {s}
                        ELSE valid
            /\ IF l.how \in {"stored", "full"}
               THEN /\ up' = "up"
                    /\ account' = h
                    /\ client' = s
                    /\ authDb' = SessionInsert(authDb, h, s)
               ELSE /\ up' = "failed"
                    /\ account' = ""
                    /\ client' = NoSession
                    /\ authDb' = authDb
    /\ event' = ""
    /\ UNCHANGED pipeline

\* The client tells session_change of an event: a REFRESH or a CREATE
\* comes with a new session, an IMPORT with the one the client holds.
SessionChange ==
    /\ up = "up"
    /\ \E e \in SessionEvents :
        LET s == IF e = "IMPORT" THEN client ELSE issued + 1
        IN  /\ e # "IMPORT" => issued < MaxSessions
            /\ event' = e
            /\ client' = s
            /\ issued' = IF e = "IMPORT" THEN issued ELSE issued + 1
            /\ valid' = IF e = "REFRESH" THEN (valid \ {client}) \cup {s}
                        ELSE valid \cup {s}
            /\ authDb' = OnSessionChange(authDb, e, account, s)
    /\ UNCHANGED <<pipeline, account, up, login>>

\* The server stops accepting a session.
Expire ==
    /\ \E s \in valid : valid' = valid \ {s}
    /\ UNCHANGED <<pipeline, authDb, account, client, up, issued, event, login>>

\* The process ends, or the failed construction is given up.
Shutdown ==
    /\ up # "down"
    /\ up' = "down"
    /\ account' = ""
    /\ client' = NoSession
    /\ event' = ""
    /\ UNCHANGED <<pipeline, authDb, valid, issued, login>>

NextSession ==
    \/ Startup
    \/ SessionChange
    \/ Expire
    \/ Shutdown

SpecSession == Init /\ [][NextSession]_vars

\* ------------------------------------------------------------------ claims
IsPrefix(a, b) == Len(a) <= Len(b) /\ SubSeq(b, 1, Len(a)) = a

UniqueStaged ==
    \A i \in DOMAIN to_be_added, j \in DOMAIN to_be_added :
        to_be_added[i].subject = to_be_added[j].subject => i = j

UniqueDone == \A x \in added, y \in added : x.subject = y.subject => x = y

\* C1: whenever process_list is at the point of invoking add_item_to_list
\* for the row it visits, the row's subject has no record in 'added'; this
\* holds in every run, also one that follows an interruption between the
\* insert into 'added' and the delete from 'to_be_added'.
C1_NoCallForDoneSubject ==
    pc \in {"acquire", "call"} => row.subject \notin DoneSubjects

\* A run after such an interruption visits the staged row of the subject
\* and goes to the cleanup branch with it.
C1_Witness ==
    /\ pc = "cleanup"
    /\ row.subject \in torn
    /\ row.subject \in DoneSubjects

\* C2: add_item_to_list never succeeds for a subject for which it has
\* succeeded before, whatever calls and interruptions came in between.
C2_AppliedAtMostOnce ==
    [][(pc = "call" /\ pc' = "insert") => row.subject \notin applied]_vars

\* C3: once try_acquire has returned False in a drain pass, the pass does
\* not invoke add_item_to_list and writes to neither table: it stops.
C3_RefusalStopsPass ==
    denied => pc \notin {"call", "insert", "delete"}

\* C4: when add_item_to_list raises for a row, the drain pass is not
\* aborted: it moves on to the next row with both tables as they were.
C4_FailureDoesNotAbortPass ==
    [][(pc = "call" /\ pc' # "insert" /\ lastRun' # "killed")
         => (pc' = "next" /\ rows' = rows /\ UNCHANGED <<to_be_added, added>>)]_vars

\* C5: 'to_be_added' holds at most one row per subject, and a turn of the
\* staging loop raises nothing and keeps every row of the table as it is;
\* for a subject already staged it leaves the whole table unchanged.
C5_StagingIdempotent ==
    /\ []UniqueStaged
    /\ [][(pc = "stage" /\ lastRun' # "killed" /\ likes # <<>>)
            => /\ pc' = "stage"
               /\ IsPrefix(to_be_added, to_be_added')
               /\ Head(likes).did \in StagedSubjects
                    => to_be_added' = to_be_added]_vars

\* An ingestion call has staged again a subject that was staged from the
\* other post, a row has been added in the same call, and the first row
\* still carries its own source and handle.
C5_Witness ==
    /\ pc = "stage"
    /\ likes = <<>>
    /\ walked \cap startStaged # {}
    /\ \E r \in Range(to_be_added) :
        /\ r.subject \in walked \cap startStaged
        /\ r.source # post_url
        /\ r.handle # HandleOn(post_url)

\* C6: a turn of the staging loop for a subject that has a record in
\* 'added' leaves 'to_be_added' unchanged.
C6_DoneSubjectNotRestaged ==
    [][(pc = "stage" /\ pc' = "stage" /\ likes # <<>>
          /\ Head(likes).did \in DoneSubjects)
         => to_be_added' = to_be_added]_vars

\* C7: between calls, no subject is in both tables and no subject occurs
\* twice in a table.
C7_StagedAndDoneDisjoint ==
    pc = "idle" =>
        /\ StagedSubjects \cap DoneSubjects = {}
        /\ UniqueStaged
        /\ UniqueDone

\* C8: a drain pass in which try_acquire never returned False and that
\* reaches the end of its iteration (it does only when every call of
\* add_item_to_list returned) has emptied 'to_be_added' and has every
\* subject staged at its start in 'added', once; a pass that directly
\* follows such a pass finds nothing to iterate over, so it never acquires,
\* calls, inserts or deletes.
C8_DrainIdempotent ==
    /\ (pc = "next" /\ rows = <<>> /\ ~denied)
         => /\ to_be_added = <<>>
            /\ startStaged \subseteq DoneSubjects
            /\ UniqueDone
    /\ (pc # "idle" /\ prev \in {"drain_clean", "drain_idle"})
         => /\ pc = "next"
            /\ rows = <<>>
            /\ to_be_added = <<>>

\* A pass runs directly after a clean pass that drained staged rows.
C8_Witness ==
    /\ pc = "next"
    /\ prev = "drain_clean"
    /\ DoneSubjects = Subjects

\* The walk of fetch_likes is over exactly when the page in hand has no
\* cursor, and when the staging loop is over the staged subjects are those
\* staged before the call and the actors of the pages walked.
C9_WalkResult ==
    /\ pc = "stage" => page.cursor = NoCursor
    /\ (pc = "stage" /\ likes = <<>>)
         => StagedSubjects = startStaged \cup walked

\* C9: every get_likes request after the first carries the cursor the page
\* before it returned, no request follows a page without a cursor, and the
\* call stages exactly the actors of the pages walked (nothing when the
\* first page has no actors and no cursor).
C9_PaginationFollowsCursor ==
    /\ []C9_WalkResult
    /\ [][(nreq' = nreq + 1 /\ nreq >= 1)
            => (page.cursor # NoCursor /\ sent' = page.cursor)]_vars

\* A walk of MaxPages pages with different actors has been staged whole.
C9_Witness ==
    /\ pc = "stage"
    /\ likes = <<>>
    /\ nreq = MaxPages
    /\ sent # NoCursor
    /\ walked = Subjects
    /\ startStaged = {}

\* C10: a subject leaves 'to_be_added' only in a step that starts with the
\* subject in 'added', and a subject that was ever staged is in one of the
\* two tables at every point.
C10_RemovedOnlyWhenDone ==
    /\ [](everStaged \subseteq StagedSubjects \cup DoneSubjects)
    /\ [][\A s \in StagedSubjects :
            s \notin StagedSubjects' => (s \in DoneSubjects /\ s \in DoneSubjects')]_vars

\* After an interruption, a subject that was staged is in 'added' only, and
\* another is in both tables.
C10_Witness ==
    /\ lastRun = "killed"
    /\ everStaged \ StagedSubjects # {}
    /\ torn # {}

\* C11: the row of a handle in the session table changes only in a
\* construction for that handle that found no row, or when session_change
\* is told of a REFRESH while the object of that handle is up; the row then
\* holds the session of the client. Every other step, a construction that
\* finds a row and a CREATE or IMPORT event among them, leaves it as it was.
C11_StoredSessionFrame ==
    [][\A h \in Accounts : authDb'[h] # authDb[h] =>
          \/ /\ up = "down"
             /\ up' = "up"
             /\ account' = h
             /\ authDb[h] = NoSession
             /\ authDb'[h] = client'
          \/ /\ up = "up"
             /\ account = h
             /\ event' = "REFRESH"
             /\ client' # client
             /\ authDb'[h] = client']_vars

\* session_change was told of a CREATE, the client holds the new session
\* and the stored row still holds another one.
C11_Witness ==
    /\ up = "up"
    /\ event = "CREATE"
    /\ authDb[account] \notin {NoSession, client}

\* C17: a construction fails only when the login with handle and password
\* failed, and a construction for a handle whose stored session is missing
\* or not accepted by the server ends up with the session of a login with
\* handle and password.
C17_StartupRecovers ==
    [][(up = "down" /\ up' # "down") =>
          /\ up' = "failed" => login' = "full_failed"
          /\ up' = "up" => login' \in {"stored", "full"}
          /\ \A h \in Accounts :
                (account' = h /\ authDb[h] \notin valid) =>
                    /\ login' = "full"
                    /\ client' = issued + 1
                    /\ client' \in valid']_vars

\* The object is up after a login with handle and password although the
\* handle had a stored session: the server had rejected it.
C17_Witness ==
    /\ up = "up"
    /\ event = ""
    /\ login = "full"
    /\ authDb[account] \notin {NoSession, client}

\* C12: a step in which a store statement failed for another reason than
\* the duplicate subject of staging (the insert of a subject that is not
\* staged wrote no row, the insert into 'added' wrote no row) ends the call.
C12_StoreFailureIsFatal ==
    [][(\/ /\ pc = "stage"
           /\ likes # <<>>
           /\ likes' # likes
           /\ Head(likes).did \notin StagedSubjects
           /\ to_be_added' = to_be_added
        \/ /\ pc = "insert"
           /\ pc' # "insert"
           /\ added' = added)
         => pc' = "idle"]_vars

\* C13: when get_likes fails inside the walk, the call ends without another
\* request, the actors of the pages read before the failure are staged, and
\* the rows staged before the call are in the table as they were.
C13_PartialWalkIsStaged ==
    [][(pc = "fetch" /\ lastRun' = "fetch_raised") =>
          /\ pc' = "idle"
          /\ walked \subseteq StagedSubjects'
          /\ \A r \in Range(to_be_added) :
                r.subject \in startStaged => r \in Range(to_be_added')]_vars

\* C14: the step in which add_item_to_list fails leaves 'to_be_added' and
\* 'added' as they were, with the row of the candidate staged and no record
\* of its subject in 'added'; and a pass iterates over every row that is
\* staged when it starts, the row of that candidate among them.
C14_FailedCandidateStaysStaged ==
    /\ [][(pc = "call" /\ lastRun' = "call_raised") =>
            /\ to_be_added' = to_be_added
            /\ added' = added
            /\ row \in Range(to_be_added')
            /\ row.subject \notin DoneSubjects']_vars
    /\ [][(pc = "idle" /\ pc' = "next") => rows' = to_be_added]_vars

\* The pass that follows a pass ended by a failure of add_item_to_list is
\* at the first staged row, the one the failure left, and is about to call
\* add_item_to_list for it again.
C14_Witness ==
    /\ pc = "call"
    /\ prev = "call_raised"
    /\ row = Head(to_be_added)
    /\ Len(rows) + 1 = Len(to_be_added)

\* C15: at every point, over every restart, the invocations of
\* add_item_to_list of the last hour are no more than the capacity of the
\* hour and those of the last day no more than the capacity of the day.
C15_CallsWithinCapacity ==
    /\ Cardinality(InWindow(calls, now, 1)) <= HourCap
    /\ Cardinality(InWindow(calls, now, DayLen)) <= DayCap

DrainPc == {"next", "acquire", "call", "insert", "delete", "cleanup"}

\* Steps a pass can still take at most: five for each row not yet visited
\* and those left for the row in hand.
DrainRank ==
    5 * Len(rows) + (CASE pc = "acquire" -> 4
                       [] pc = "call" -> 3
                       [] pc = "insert" -> 2
                       [] pc \in {"delete", "cleanup"} -> 1
                       [] OTHER -> 0)

\* C16: every step of a pass lowers DrainRank, which is never negative, so
\* a pass ends after at most five steps for each row staged at its start;
\* the rows still to visit are rows staged at the start of the pass, each
\* once, and never the row in hand again; and try_acquire moves the clock
\* by at most max_delay before it returns.
C16_DrainPassTerminates ==
    /\ [](pc \in DrainPc =>
            /\ row \notin Range(rows)
            /\ \A i, j \in DOMAIN rows :
                  rows[i].subject = rows[j].subject => i = j
            /\ {r.subject : r \in Range(rows)} \subseteq startStaged)
    /\ [][(pc \in DrainPc /\ pc' \in DrainPc) =>
            /\ DrainRank' < DrainRank
            /\ rows' = rows \/ (rows' = Tail(rows) /\ row' = Head(rows))]_vars
    /\ [][pc = "acquire" => now' - now <= MaxDelay]_vars

\* A pass over two rows is at its end, and one of its try_acquire calls
\* had waited and then returned False.
C16_Witness ==
    /\ pc = "next"
    /\ rows = <<>>
    /\ startStaged = Subjects
    /\ denied

\* C18: no step removes or changes a record of 'added'; a record is added
\* only by the insert step that follows the return of add_item_to_list for
\* the row in hand, for the subject of that row and with the list of the
\* running pass; and 'added' holds one record for a subject at most.
C18_DoneRecordsAreFinal ==
    /\ []UniqueDone
    /\ [][pc' = "insert" => (pc = "call" /\ row.subject \in applied')]_vars
    /\ [][/\ added \subseteq added'
          /\ \A r \in added' \ added :
                /\ pc = "insert"
                /\ r.subject = row.subject
                /\ r.subject \in applied
                /\ r.list_url = list_url
                /\ list_url \in Lists]_vars

\* A pass for one list is at a staged row whose subject has a record in
\* 'added' for the other list, written by an earlier pass.
C18_Witness ==
    /\ pc = "cleanup"
    /\ \E r \in added : r.subject = row.subject /\ r.list_url # list_url

\* C19: a pass comes to try_acquire only from taking a row whose subject
\* has no record in 'added', and to add_item_to_list only from try_acquire;
\* the step of try_acquire adds one unit to the bucket; the cleanup of a
\* done subject and the return or failure of add_item_to_list leave the
\* bucket as it is.
C19_OneUnitPerInvocation ==
    /\ [](pc = "acquire" => row.subject \notin DoneSubjects)
    /\ [][(pc' = "acquire" /\ pc # "acquire") => pc = "next"]_vars
    /\ [][(pc' = "call" /\ pc # "call") => pc = "acquire"]_vars
    /\ [][(pc = "cleanup" \/ pc = "call") => bucket' = bucket]_vars
    /\ [][(pc = "acquire" /\ pc' = "call") =>
            Len(bucket') = Len(Leak(bucket, now')) + 1]_vars

====
